---- MODULE Spec2Model ----
(***************************************************************************)
(* State-machine model of the eBay order import of trytond-ebay:           *)
(* sale.channel (channel.py), product.product (product.py) and the party   *)
(* and sale builders they call.                                            *)
(***************************************************************************)
EXTENDS Integers, Sequences, FiniteSets, TLC

VARIABLES
    clock,              \* datetime.utcnow(), in abstract ticks
    channels,           \* sale.channel records: id -> [source, last_ebay_order_import_time]
    has_get_trading_api,\* whether the sale.channel base class of the build defines get_trading_api
    db,                 \* tables written by the import: parties, addresses, contact mechanisms, templates, products, sales
    run,                \* the frame of import_ebay_orders: position and locals
    api_calls,          \* marketplace calls issued by the operation in progress (or the last one)
    ret,                \* outcome of the last operation called directly on a model class
    last_window_end,    \* per channel: the window_end of the last run that captured a window, -1 before the first
    cron                \* the frame of import_ebay_orders_using_cron: position and the channels still to import

vars == <<clock, channels, has_get_trading_api, db, run, api_calls, ret, last_window_end, cron>>

----------------------------------------------------------------------------
(* Bounds *)

MaxTime == 3        \* the clock stops ticking here
MaxBatch == 3       \* most orders in one GetOrders response
MaxSales == 3       \* the marketplace offers no more orders than the sale table has room for

DefaultLookback == 1   \* relativedelta(days=30), in ticks

----------------------------------------------------------------------------
(* The installation: an eBay channel and a channel of another source *)

ChannelIds == 1..2

ChannelSource(id) == IF id = 2 THEN "manual" ELSE "ebay"

NoError == "none"

----------------------------------------------------------------------------
(* The marketplace: item payloads as GetItem returns them *)

ItemIds == {"X", "Z"}

ItemPayload(id) ==
    CASE id = "X" -> [Item |-> [ItemID |-> "X", Title |-> "Item X", BuyItNowPrice |-> "25.0",
                                StartPrice |-> "10.0", Description |-> "desc X", SKU |-> "sku-x"]]
      [] id = "Z" -> [Item |-> [ItemID |-> "Z", Title |-> "Item Z", BuyItNowPrice |-> "",
                                StartPrice |-> "25.0", Description |-> "desc Z", SKU |-> ""]]

ItemPayloads == {ItemPayload(id) : id \in ItemIds}

\* an auction listing: eBay reports the buy-now price it does not have as 0.0
AuctionPayload ==
    [Item |-> [ItemID |-> "Y", Title |-> "Item Y", BuyItNowPrice |-> "0.0",
               StartPrice |-> "10.0", Description |-> "desc Y", SKU |-> ""]]

\* Items the marketplace still lists; GetItem on any other id fails.
ListedItems == {"X"}

\* decimal.Decimal on the price strings of the payloads, in cents; -1 is InvalidOperation.
Decimal(s) ==
    CASE s = "0.0" -> 0
      [] s = "10.0" -> 1000
      [] s = "25.0" -> 2500
      [] OTHER -> -1

----------------------------------------------------------------------------
(* product.product *)

Result(d, value, error, calls) == [db |-> d, value |-> value, error |-> error, calls |-> calls]

\* a validation that lets every channel pass
validate_nothing(ch) == NoError

\* SaleChannel.validate_ebay_channel: the error it raises, if any
validate_ebay_channel(ch) ==
    IF channels[ch].source # "ebay" THEN "invalid_channel" ELSE NoError

\* cls.search([('ebay_item_id', '=', ebay_id)])
search_ebay_item_id(d, ebay_id) ==
    {i \in DOMAIN d.products : d.products[i].ebay_item_id = ebay_id}

MinOf(S) == CHOOSE x \in S : \A y \in S : x <= y

\* Python's `a or b` on strings
Or(a, b) == IF a # "" THEN a ELSE b

\* values that take the start price as the list price whatever the buy-now price
extract_product_values_with_start_price(ch, product_data) ==
    [name |-> product_data.Item.Title,
     list_price |-> Decimal(product_data.Item.StartPrice),
     cost_price |-> Decimal(product_data.Item.StartPrice),
     salable |-> TRUE,
     default_uom |-> channels[ch].default_uom,
     sale_uom |-> channels[ch].default_uom,
     account_expense |-> channels[ch].default_account_expense,
     account_revenue |-> channels[ch].default_account_revenue]

\* lines 93-105: the values of the template
extract_product_values_from_ebay_data(ch, product_data) ==
    [name |-> product_data.Item.Title,
     list_price |-> Decimal(Or(product_data.Item.BuyItNowPrice, product_data.Item.StartPrice)),
     cost_price |-> Decimal(product_data.Item.StartPrice),
     salable |-> TRUE,
     default_uom |-> channels[ch].default_uom,
     sale_uom |-> channels[ch].default_uom,
     account_expense |-> channels[ch].default_account_expense,
     account_revenue |-> channels[ch].default_account_revenue]

\* a table without the constraint
no_unique_constraint(d, ebay_item_id) == TRUE

\* UNIQUE(ebay_item_id): does a new row with this id satisfy the constraint?
unique_product_ebay_item_id(d, ebay_item_id) ==
    \A i \in DOMAIN d.products : d.products[i].ebay_item_id # ebay_item_id

Product_create_using_ebay_data(d, ch, product_data, calls) ==
    LET product_values == extract_product_values_from_ebay_data(ch, product_data)
        template_id == Len(d.templates) + 1
        product_id == Len(d.products) + 1
        product == [template |-> template_id,
                    ebay_item_id |-> product_data.Item.ItemID,
                    description |-> product_data.Item.Description,
                    code |-> product_data.Item.SKU]
    IN  IF validate_ebay_channel(ch) # NoError
          THEN Result(d, 0, validate_ebay_channel(ch), calls)
        ELSE IF product_values.list_price < 0 \/ product_values.cost_price < 0
          THEN Result(d, 0, "InvalidOperation", calls)
        ELSE IF ~unique_product_ebay_item_id(d, product.ebay_item_id)
          THEN Result(d, 0, "unique_product_ebay_item_id", calls)
        ELSE Result([d EXCEPT !.templates = Append(@, product_values),
                              !.products = Append(@, product)],
                    product_id, NoError, calls)

GetItem(ch, ebay_id) == [verb |-> "GetItem", channel |-> ch, ItemID |-> ebay_id]

\* a reconciler that fetches and creates without looking the product up first
Product_always_create_using_ebay_id(d, ch, ebay_id) ==
    IF validate_ebay_channel(ch) # NoError
      THEN Result(d, 0, validate_ebay_channel(ch), <<>>)
    ELSE IF ~has_get_trading_api
      THEN Result(d, 0, "AttributeError", <<>>)
    ELSE IF ebay_id \notin ListedItems
      THEN Result(d, 0, "ConnectionError", <<GetItem(ch, ebay_id)>>)
    ELSE Product_create_using_ebay_data(d, ch, ItemPayload(ebay_id), <<GetItem(ch, ebay_id)>>)

\* a reconciler that answers a failed create path with no product instead
\* of an exception
Product_find_or_none_using_ebay_id(d, ch, ebay_id) ==
    LET products == search_ebay_item_id(d, ebay_id)
    IN  IF products # {}
          THEN Result(d, MinOf(products), NoError, <<>>)
        ELSE IF validate_ebay_channel(ch) # NoError \/ ~has_get_trading_api
          THEN Result(d, 0, NoError, <<>>)
        ELSE IF ebay_id \notin ListedItems
          THEN Result(d, 0, NoError, <<GetItem(ch, ebay_id)>>)
        ELSE Product_create_using_ebay_data(d, ch, ItemPayload(ebay_id), <<GetItem(ch, ebay_id)>>)

Product_find_or_create_using_ebay_id(d, ch, ebay_id) ==
    LET products == search_ebay_item_id(d, ebay_id)
    IN  IF products # {}
          THEN Result(d, MinOf(products), NoError, <<>>)
        ELSE IF validate_ebay_channel(ch) # NoError
          THEN Result(d, 0, validate_ebay_channel(ch), <<>>)
        ELSE IF ~has_get_trading_api
          THEN Result(d, 0, "AttributeError", <<>>)
        ELSE IF ebay_id \notin ListedItems
          THEN Result(d, 0, "ConnectionError", <<GetItem(ch, ebay_id)>>)
        ELSE Product_create_using_ebay_data(d, ch, ItemPayload(ebay_id), <<GetItem(ch, ebay_id)>>)

----------------------------------------------------------------------------
(* party.party, party.address, party.contact_mechanism *)

Address(name, street, city, zip, country, state, phone) ==
    [Name |-> name, Street |-> street, CityName |-> city, PostalCode |-> zip,
     Country |-> country, StateOrProvince |-> state, Phone |-> phone]

Addr1a == Address("alice", "1 main st", "miami", "33101", "US", "Florida", "555-0001")
Addr1b == Address("alice", "1 main st", "miami", "33101", "US", "FLORIDA", "555-0001")
Addr2  == Address("bob", "2 beach rd", "panaji", "403001", "IN", "Goa", "")
\* Addr1a with another country and state, state, city, street
Addr1c == Address("alice", "1 main st", "miami", "33101", "IN", "Goa", "555-0001")
Addr1d == Address("alice", "1 main st", "miami", "33101", "US", "Texas", "555-0001")
Addr1e == Address("alice", "1 main st", "tampa", "33101", "US", "Florida", "555-0001")
Addr1f == Address("alice", "9 oak ave", "miami", "33101", "US", "Florida", "555-0001")
\* Addr1a with another addressee and postal code
Addr1g == Address("a. smith", "1 main st", "miami", "33199", "US", "Florida", "555-0001")
\* Addr1a with another casing of the street, the city and the country
Addr1h == Address("alice", "1 MAIN ST", "MIAMI", "33101", "us", "Florida", "555-0001")

\* the payloads addresses are stored from, and the candidates they are compared with
AddressPayloads == {Addr1a, Addr1b, Addr2}
MatchPayloads == AddressPayloads \cup {Addr1c, Addr1d, Addr1e, Addr1f, Addr1g, Addr1h}

PhoneValues == {"555-0001"}

\* a comparison key that keeps the casing
Lower_keeps_case(s) == s

\* str.lower() on the strings of the payloads
Lower(s) ==
    CASE s \in {"Florida", "FLORIDA"} -> "florida"
      [] s = "Goa" -> "goa"
      [] s = "Texas" -> "texas"
      [] s = "US" -> "us"
      [] s = "IN" -> "in"
      [] s = "MIAMI" -> "miami"
      [] s = "1 MAIN ST" -> "1 main st"
      [] OTHER -> s

User(id, email, address) == [UserID |-> id, Email |-> email, RegistrationAddress |-> address]

\* Party.get_address_from_ebay_data: the unsaved address record of a payload
get_address_from_ebay_data(party, address_data) ==
    [party |-> party,
     name |-> address_data.Name,
     street |-> address_data.Street,
     zip |-> address_data.PostalCode,
     city |-> address_data.CityName,
     country |-> address_data.Country,
     subdivision |-> address_data.StateOrProvince]

\* Address.is_match_found
is_match_found(address, candidate) ==
    /\ Lower(address.country) = Lower(candidate.country)
    /\ Lower(address.subdivision) = Lower(candidate.subdivision)
    /\ Lower(address.city) = Lower(candidate.city)
    /\ Lower(address.street) = Lower(candidate.street)

search_party(d, name) == {i \in DOMAIN d.parties : d.parties[i].name = name}

\* a create that does not look for a party with the same identity
Party_create_unchecked_using_ebay_data(d, user_data) ==
    Result([d EXCEPT !.parties = Append(@, [name |-> user_data.UserID])],
           Len(d.parties) + 1, NoError, <<>>)

Party_create_using_ebay_data(d, user_data) ==
    IF search_party(d, user_data.UserID) # {}
      THEN Result(d, 0, "unique_party_name", <<>>)
    ELSE LET party == Len(d.parties) + 1
             email == [party |-> party, type |-> "email", value |-> user_data.Email]
         IN  Result([d EXCEPT !.parties = Append(@, [name |-> user_data.UserID]),
                              !.contact_mechanisms =
                                  IF user_data.Email # "" THEN Append(@, email) ELSE @],
                    party, NoError, <<>>)

Party_find_or_create_using_ebay_data(d, user_data) ==
    LET found == search_party(d, user_data.UserID)
    IN  IF found # {} THEN Result(d, MinOf(found), NoError, <<>>)
        ELSE Party_create_using_ebay_data(d, user_data)

\* an address reconciler that stores every payload as a new address
always_create_address_using_ebay_data(d, party, address_data) ==
    Result([d EXCEPT !.addresses = Append(@, get_address_from_ebay_data(party, address_data))],
           Len(d.addresses) + 1, NoError, <<>>)

find_or_create_address_using_ebay_data(d, party, address_data) ==
    LET candidate == get_address_from_ebay_data(party, address_data)
        matches == {i \in DOMAIN d.addresses :
                        /\ d.addresses[i].party = party
                        /\ is_match_found(d.addresses[i], candidate)}
    IN  IF matches # {} THEN Result(d, MinOf(matches), NoError, <<>>)
        ELSE Result([d EXCEPT !.addresses = Append(@, candidate)],
                    Len(d.addresses) + 1, NoError, <<>>)

\* a phone import that adds a contact mechanism on every call
always_add_phone_using_ebay_data(d, party, phone) ==
    [d EXCEPT !.contact_mechanisms =
                  Append(@, [party |-> party, type |-> "phone", value |-> phone])]

add_phone_using_ebay_data(d, party, phone) ==
    LET mechanism == [party |-> party, type |-> "phone", value |-> phone]
    IN  IF \E i \in DOMAIN d.contact_mechanisms : d.contact_mechanisms[i] = mechanism
          THEN d
        ELSE [d EXCEPT !.contact_mechanisms = Append(@, mechanism)]

----------------------------------------------------------------------------
(* sale.sale: the Sale Builder *)

Order(id, buyer, items) == [OrderID |-> id, Buyer |-> buyer, Items |-> items]

Order1 == Order("o1", User("alice", "alice@example.com", Addr1a), <<"X">>)
Order2 == Order("o2", User("alice", "alice@example.com", Addr1a), <<"X">>)
Order3 == Order("o3", User("bob", "", Addr2), <<"X", "Z">>)

OrderPayloads == {Order1, Order2, Order3}

\* the marketplace users the party operations are called with
UserPayloads == {o.Buyer : o \in OrderPayloads}

RECURSIVE get_item_details(_, _, _, _, _)
\* one sale line per line item of the order, each on its reconciled product
get_item_details(d, ch, items, lines, calls) ==
    IF items = <<>> THEN Result(d, lines, NoError, calls)
    ELSE LET r == Product_find_or_create_using_ebay_id(d, ch, Head(items))
         IN  IF r.error # NoError THEN Result(d, <<>>, r.error, calls \o r.calls)
             ELSE get_item_details(r.db, ch, Tail(items), Append(lines, r.value),
                                   calls \o r.calls)

\* Sale.create_using_ebay_data under the context {'current_channel': ch}.
\* A failure at any step leaves none of the order's writes behind.
Sale_create_using_ebay_data(d, ch, order_data) ==
    LET p == Party_find_or_create_using_ebay_data(d, order_data.Buyer)
        address_data == order_data.Buyer.RegistrationAddress
        a == find_or_create_address_using_ebay_data(p.db, p.value, address_data)
        withPhone == IF address_data.Phone # ""
                       THEN add_phone_using_ebay_data(a.db, p.value, address_data.Phone)
                     ELSE a.db
        l == get_item_details(withPhone, ch, order_data.Items, <<>>, <<>>)
        sale == [party |-> p.value, invoice_address |-> a.value, channel |-> ch,
                 reference |-> order_data.OrderID, lines |-> l.value]
    IN  IF p.error # NoError THEN Result(d, 0, p.error, <<>>)
        ELSE IF l.error # NoError THEN Result(d, 0, l.error, l.calls)
        ELSE Result([l.db EXCEPT !.sales = Append(@, sale)], Len(l.db.sales) + 1,
                    NoError, l.calls)

----------------------------------------------------------------------------
(* sale.channel: import_ebay_orders, one action per step of the method *)

EmptyDb == [parties |-> <<>>, addresses |-> <<>>, contact_mechanisms |-> <<>>,
            templates |-> <<>>, products |-> <<>>, sales |-> <<>>]

\* Python values of the response: None, a dict, a list
None == [type |-> "NoneType"]
Dict(fields) == [type |-> "dict", fields |-> fields]
List(items) == [type |-> "list", items |-> items]
isinstance(value, type) == value.type = type

NoResponse == [OrderArray |-> None]

\* the number of rows of the tables the Sale Builder writes
Counts(d) == [parties |-> Len(d.parties), addresses |-> Len(d.addresses),
              products |-> Len(d.products), sales |-> Len(d.sales)]

\* two orders of the same buyer, unknown so far, with the same registration
\* address, each with one line for the same item, unknown so far
ReuseCase(d, orders) ==
    /\ Len(orders) = 2
    /\ orders[1].Buyer = orders[2].Buyer
    /\ orders[1].Items = orders[2].Items
    /\ Len(orders[1].Items) = 1
    /\ search_party(d, orders[1].Buyer.UserID) = {}
    /\ search_ebay_item_id(d, orders[1].Items[1]) = {}

\* The frame of import_ebay_orders.  prev_window_end, writes, batch and failed
\* are bookkeeping: the window_end of the channel's previous run, the number
\* of cursor writes of this run, the number of orders of the response, and
\* the order whose Sale construction raised; reuse and before record whether
\* the batch is two orders of one unseen buyer for one unseen item, and the
\* sizes of the tables when such a batch entered the loop.
IdleRun == [pc |-> "idle", self |-> 0, now |-> 0, last_import_time |-> 0,
            prev_window_end |-> -1, writes |-> 0, response |-> NoResponse, batch |-> 0,
            orders |-> <<>>, sales |-> <<>>, failed |-> "",
            error |-> NoError, error_args |-> -1,
            reuse |-> FALSE, before |-> Counts(EmptyDb)]

NoReturn == [op |-> "none", channel |-> 0, ebay_id |-> "", value |-> 0, error |-> NoError]

\* the frame of import_ebay_orders_using_cron outside a call
IdleCron == [pc |-> "idle", channels |-> <<>>, error |-> NoError]

\* SaleChannel.default_last_ebay_order_import_time
default_last_ebay_order_import_time == clock - DefaultLookback

Init ==
    /\ clock = DefaultLookback
    /\ channels = [id \in ChannelIds |->
                      [source |-> ChannelSource(id),
                       ebay_token |-> <<"token", id>>,
                       default_uom |-> <<"uom", id>>,
                       default_account_expense |-> <<"expense", id>>,
                       default_account_revenue |-> <<"revenue", id>>,
                       last_ebay_order_import_time |-> default_last_ebay_order_import_time]]
    /\ has_get_trading_api \in BOOLEAN
    /\ db = EmptyDb
    /\ run = IdleRun
    /\ api_calls = <<>>
    /\ ret = NoReturn
    /\ last_window_end = [id \in ChannelIds |-> -1]
    /\ cron = IdleCron

\* no method of the module is executing
Quiet == run.pc \in {"idle", "done", "raised"}

\* time passes between operations and while the run waits for the marketplace
Tick ==
    /\ Quiet \/ run.pc = "fetch"
    /\ clock < MaxTime
    /\ clock' = clock + 1
    /\ UNCHANGED <<channels, has_get_trading_api, db, run, api_calls, ret, last_window_end, cron>>

\* a window that always starts the default lookback before now
window_start_default(ch) == default_last_ebay_order_import_time

\* line 169: last_import_time = self.last_ebay_order_import_time
window_start(ch) == channels[ch].last_ebay_order_import_time

\* lines 156-169: validate the channel, build the api, capture now and the cursor
import_ebay_orders(ch) ==
    /\ Quiet
    /\ api_calls' = <<>>
    /\ ret' = NoReturn
    /\ IF validate_ebay_channel(ch) # NoError
         THEN /\ run' = [IdleRun EXCEPT !.pc = "raised", !.self = ch,
                                        !.error = validate_ebay_channel(ch)]
              /\ UNCHANGED last_window_end
         ELSE /\ run' = [IdleRun EXCEPT !.pc = "write", !.self = ch, !.now = clock,
                             !.last_import_time = window_start(ch),
                             !.prev_window_end = last_window_end[ch]]
              /\ last_window_end' = [last_window_end EXCEPT ![ch] = clock]
    /\ UNCHANGED <<clock, channels, has_get_trading_api, db>>

\* a cursor write that stores the window's start instead of its end
cursor_value_stale(frame) == frame.last_import_time

\* the value line 172 writes to the cursor
cursor_value(frame) == frame.now

\* a run that goes on to the fetch without writing the cursor
write_skipped ==
    /\ run.pc = "write"
    /\ run' = [run EXCEPT !.pc = "fetch"]
    /\ UNCHANGED <<clock, channels, has_get_trading_api, db, api_calls, ret, last_window_end, cron>>

\* line 172: self.write([self], {'last_ebay_order_import_time': now})
write_last_ebay_order_import_time ==
    /\ run.pc = "write"
    /\ channels' = [channels EXCEPT ![run.self].last_ebay_order_import_time =
                                        cursor_value(run)]
    /\ run' = [run EXCEPT !.pc = "fetch", !.writes = @ + 1]
    /\ UNCHANGED <<clock, has_get_trading_api, db, api_calls, ret, last_window_end, cron>>

NoRepeat(s) == \A i, j \in DOMAIN s : i # j => s[i] # s[j]

\* the sequences of 1..n distinct elements of S
Batches(S, n) == UNION {{s \in [1..k -> S] : NoRepeat(s)} : k \in 1..n}

Min(a, b) == IF a <= b THEN a ELSE b

\* what GetOrders(...).dict() can be: no OrderArray, one order as a dict, a list of orders
Responses(room) ==
    {NoResponse}
    \cup {[OrderArray |-> Dict([Order |-> Dict(o)])] : o \in {p \in OrderPayloads : room >= 1}}
    \cup {[OrderArray |-> Dict([Order |-> List(s)])] :
             s \in Batches(OrderPayloads, Min(MaxBatch, room))}

GetOrders(ch, from, to) ==
    [verb |-> "GetOrders", channel |-> ch, CreateTimeFrom |-> from, CreateTimeTo |-> to]

\* lines 174-179: api.execute('GetOrders', ...).dict(); the transport may raise
execute_GetOrders ==
    /\ run.pc = "fetch"
    /\ api_calls' = Append(api_calls, GetOrders(run.self, run.last_import_time, run.now))
    /\ \/ \E response \in Responses(MaxSales - Len(db.sales)) :
              run' = [run EXCEPT !.pc = "fetched", !.response = response]
       \/ run' = [run EXCEPT !.pc = "raised", !.error = "ConnectionError"]
    /\ UNCHANGED <<clock, channels, has_get_trading_api, db, ret, last_window_end, cron>>

\* a normalisation that knows lists only and finds no order in a dict
normalize_orders_list_only(response) ==
    IF isinstance(response.OrderArray.fields.Order, "dict")
      THEN <<>>
    ELSE response.OrderArray.fields.Order.items

\* lines 188-191: a single order comes as a dict, several as a list
normalize_orders(response) ==
    IF isinstance(response.OrderArray.fields.Order, "dict")
      THEN <<response.OrderArray.fields.Order.fields>>
    ELSE response.OrderArray.fields.Order.items

\* a no_orders error that carries the end of the window
no_orders_reports_now(frame) ==
    [frame EXCEPT !.pc = "raised", !.error = "no_orders",
                  !.error_args = frame.now, !.response = NoResponse]

\* an empty window reported as a normal return of no sales
no_orders_returns(frame) == [frame EXCEPT !.pc = "done"]

\* lines 180-183: the run's answer to a response without an OrderArray
no_orders(frame) ==
    [frame EXCEPT !.pc = "raised", !.error = "no_orders",
                  !.error_args = frame.last_import_time, !.response = NoResponse]

\* lines 180-191: no OrderArray raises no_orders, otherwise the orders are normalised
check_response ==
    /\ run.pc = "fetched"
    /\ IF run.response.OrderArray = None
         THEN run' = no_orders(run)
         ELSE run' = [run EXCEPT !.pc = "import",
                                 !.orders = normalize_orders(run.response),
                                 !.batch = Len(normalize_orders(run.response)),
                                 !.reuse = ReuseCase(db, normalize_orders(run.response)),
                                 !.before = IF ReuseCase(db, normalize_orders(run.response))
                                              THEN Counts(db) ELSE @]
    /\ UNCHANGED <<clock, channels, has_get_trading_api, db, api_calls, ret, last_window_end, cron>>

\* lines 194-195 when Sale.create_using_ebay_data raised: the exception leaves
\* the loop and the method
order_failed(frame, r) ==
    [frame EXCEPT !.pc = "raised", !.error = r.error,
                  !.failed = Head(frame.orders).OrderID, !.response = NoResponse]

\* lines 193-195: one iteration of the loop
import_order ==
    /\ run.pc = "import"
    /\ run.orders # <<>>
    /\ LET r == Sale_create_using_ebay_data(db, run.self, Head(run.orders))
       IN  /\ db' = r.db
           /\ api_calls' = api_calls \o r.calls
           /\ IF r.error # NoError
                THEN run' = order_failed(run, r)
                ELSE run' = [run EXCEPT !.orders = Tail(@), !.sales = Append(@, r.value)]
    /\ UNCHANGED <<clock, channels, has_get_trading_api, ret, last_window_end, cron>>

\* a return that moves the cursor once more, to the time the run finished
return_sales_rewrites ==
    /\ run.pc = "import"
    /\ run.orders = <<>>
    /\ channels' = [channels EXCEPT ![run.self].last_ebay_order_import_time = clock]
    /\ run' = [run EXCEPT !.pc = "done", !.response = NoResponse]
    /\ UNCHANGED <<clock, has_get_trading_api, db, api_calls, ret, last_window_end, cron>>

\* line 197: return sales
return_sales ==
    /\ run.pc = "import"
    /\ run.orders = <<>>
    /\ run' = [run EXCEPT !.pc = "done", !.response = NoResponse]
    /\ UNCHANGED <<clock, channels, has_get_trading_api, db, api_calls, ret, last_window_end, cron>>

----------------------------------------------------------------------------
(* sale.channel: import_ebay_orders_using_cron, one action per step of the loop *)

\* an installation with two eBay channels and a channel of another source
CronChannelIds == 1..3

\* cls.search([('source', '=', 'ebay')]): the channels found, in any order
search_source_ebay ==
    LET found == {ch \in DOMAIN channels : channels[ch].source = "ebay"}
    IN  {s \in [1..Cardinality(found) -> found] : NoRepeat(s)}

\* line 151: the cron method starts and searches the eBay channels
import_ebay_orders_using_cron ==
    /\ Quiet
    /\ cron.pc \in {"idle", "done", "raised"}
    /\ \E found \in search_source_ebay :
           cron' = [pc |-> "loop", channels |-> found, error |-> NoError]
    /\ run' = IdleRun
    /\ api_calls' = <<>>
    /\ ret' = NoReturn
    /\ UNCHANGED <<clock, channels, has_get_trading_api, db, last_window_end>>

\* lines 153-154: the loop calls import_ebay_orders on the next channel,
\* once the call before it has returned
cron_import_ebay_orders ==
    /\ cron.pc = "loop"
    /\ cron.channels # <<>>
    /\ run.pc \in {"idle", "done"}
    /\ import_ebay_orders(Head(cron.channels))
    /\ cron' = [cron EXCEPT !.channels = Tail(@)]

\* line 154 when import_ebay_orders raised: nothing catches the exception,
\* it leaves the loop and the cron method
cron_raise ==
    /\ cron.pc = "loop"
    /\ run.pc = "raised"
    /\ cron' = [cron EXCEPT !.pc = "raised", !.error = run.error]
    /\ UNCHANGED <<clock, channels, has_get_trading_api, db, run, api_calls, ret,
                   last_window_end>>

\* the loop has called every channel found
cron_return ==
    /\ cron.pc = "loop"
    /\ cron.channels = <<>>
    /\ run.pc \in {"idle", "done"}
    /\ cron' = [cron EXCEPT !.pc = "done"]
    /\ UNCHANGED <<clock, channels, has_get_trading_api, db, run, api_calls, ret,
                   last_window_end>>

----------------------------------------------------------------------------
(* product.product called directly, under the context {'current_channel': ch} *)

Returned(op, ch, ebay_id, r) ==
    [op |-> op, channel |-> ch, ebay_id |-> ebay_id, value |-> r.value, error |-> r.error]

call_find_or_create_using_ebay_id(ch, ebay_id) ==
    /\ Quiet
    /\ LET r == Product_find_or_create_using_ebay_id(db, ch, ebay_id)
       IN  /\ db' = r.db
           /\ api_calls' = r.calls
           /\ ret' = Returned("find_or_create_using_ebay_id", ch, ebay_id, r)
    /\ run' = IdleRun
    /\ UNCHANGED <<clock, channels, has_get_trading_api, last_window_end, cron>>

call_create_using_ebay_data(ch, product_data) ==
    /\ Quiet
    /\ LET r == Product_create_using_ebay_data(db, ch, product_data, <<>>)
       IN  /\ db' = r.db
           /\ api_calls' = r.calls
           /\ ret' = Returned("create_using_ebay_data", ch, product_data.Item.ItemID, r)
    /\ run' = IdleRun
    /\ UNCHANGED <<clock, channels, has_get_trading_api, last_window_end, cron>>

----------------------------------------------------------------------------
(* channel.ebay.check_token_status *)

GetTokenStatus(ch) == [verb |-> "GetTokenStatus", channel |-> ch]

\* what GetTokenStatus().dict() can be
TokenStatusResponses ==
    {[TokenStatus |-> [Status |-> "Active", ExpirationTime |-> "2027-05-01T00:00:00.000Z"]],
     [TokenStatus |-> [Status |-> "Expired", ExpirationTime |-> "2025-05-01T00:00:00.000Z"]]}

\* dateutil.parser.parse on the timestamps of the responses
dateutil_parser_parse(s) ==
    CASE s = "2027-05-01T00:00:00.000Z" -> [year |-> 2027, month |-> 5, day |-> 1, tz |-> "UTC"]
      [] s = "2025-05-01T00:00:00.000Z" -> [year |-> 2025, month |-> 5, day |-> 1, tz |-> "UTC"]

\* a status check that also moves the cursor of the channel it asked about
default_start_moves_cursor(ch) ==
    /\ Quiet
    /\ api_calls' = <<GetTokenStatus(ch)>>
    /\ \E response \in TokenStatusResponses :
           ret' = [op |-> "check_token_status", channel |-> ch,
                   status |-> response.TokenStatus.Status,
                   expiry_date |-> dateutil_parser_parse(response.TokenStatus.ExpirationTime),
                   error |-> NoError]
    /\ channels' = [channels EXCEPT ![ch].last_ebay_order_import_time = clock]
    /\ run' = IdleRun
    /\ UNCHANGED <<clock, has_get_trading_api, db, last_window_end, cron>>

\* CheckEbayTokenStatus.default_start with active_id = ch; the transport may raise
default_start(ch) ==
    /\ Quiet
    /\ api_calls' = <<GetTokenStatus(ch)>>
    /\ \/ \E response \in TokenStatusResponses :
              ret' = [op |-> "check_token_status", channel |-> ch,
                      status |-> response.TokenStatus.Status,
                      expiry_date |-> dateutil_parser_parse(response.TokenStatus.ExpirationTime),
                      error |-> NoError]
       \/ ret' = [op |-> "check_token_status", channel |-> ch, error |-> "ConnectionError"]
    /\ run' = IdleRun
    /\ UNCHANGED <<clock, channels, has_get_trading_api, db, last_window_end, cron>>

----------------------------------------------------------------------------
(* party.party and party.address called directly *)

\* the direct calls fill the address table up to this many rows
MaxAddresses == 2

call_Party_create_using_ebay_data(user_data) ==
    /\ Quiet
    /\ LET r == Party_create_using_ebay_data(db, user_data)
       IN  /\ db' = r.db
           /\ ret' = [op |-> "Party.create_using_ebay_data", user |-> user_data.UserID,
                      value |-> r.value, error |-> r.error]
    /\ UNCHANGED <<clock, channels, has_get_trading_api, run, api_calls, last_window_end, cron>>

call_find_or_create_address_using_ebay_data(party, address_data) ==
    /\ Quiet
    /\ party \in DOMAIN db.parties
    /\ LET r == find_or_create_address_using_ebay_data(db, party, address_data)
       IN  /\ Len(r.db.addresses) <= MaxAddresses
           /\ db' = r.db
           /\ ret' = [op |-> "find_or_create_address_using_ebay_data", party |-> party,
                      address_data |-> address_data, value |-> r.value,
                      created |-> r.db # db, error |-> r.error]
    /\ UNCHANGED <<clock, channels, has_get_trading_api, run, api_calls, last_window_end, cron>>

call_add_phone_using_ebay_data(party, phone) ==
    /\ Quiet
    /\ party \in DOMAIN db.parties
    /\ db' = add_phone_using_ebay_data(db, party, phone)
    /\ ret' = [op |-> "add_phone_using_ebay_data", party |-> party, phone |-> phone,
               created |-> db' # db, error |-> NoError]
    /\ UNCHANGED <<clock, channels, has_get_trading_api, run, api_calls, last_window_end, cron>>

call_is_match_found(address, address_data) ==
    /\ Quiet
    /\ address \in DOMAIN db.addresses
    /\ ret' = [op |-> "is_match_found", address |-> address, address_data |-> address_data,
               value |-> is_match_found(db.addresses[address],
                             get_address_from_ebay_data(db.addresses[address].party,
                                                        address_data)),
               error |-> NoError]
    /\ UNCHANGED <<clock, channels, has_get_trading_api, db, run, api_calls, last_window_end, cron>>

----------------------------------------------------------------------------

Next ==
    \/ Tick
    \/ \E ch \in DOMAIN channels : import_ebay_orders(ch) /\ UNCHANGED cron
    \/ write_last_ebay_order_import_time
    \/ execute_GetOrders
    \/ check_response
    \/ import_order
    \/ return_sales
    \/ \E ch \in DOMAIN channels, ebay_id \in ItemIds :
           call_find_or_create_using_ebay_id(ch, ebay_id)
    \/ \E ch \in DOMAIN channels, product_data \in ItemPayloads :
           call_create_using_ebay_data(ch, product_data)
    \/ \E ch \in DOMAIN channels : default_start(ch)

Spec == Init /\ [][Next]_vars

\* the party operations on their own
NextParty ==
    \/ \E user_data \in UserPayloads : call_Party_create_using_ebay_data(user_data)
    \/ \E party \in 1..Cardinality(UserPayloads), address_data \in AddressPayloads :
           call_find_or_create_address_using_ebay_data(party, address_data)
    \/ \E party \in 1..Cardinality(UserPayloads), phone \in PhoneValues :
           call_add_phone_using_ebay_data(party, phone)

SpecParty == Init /\ [][NextParty]_vars

\* the address matcher on the addresses the reconciler stored
NextMatch ==
    \/ \E user_data \in UserPayloads : call_Party_create_using_ebay_data(user_data)
    \/ \E party \in 1..Cardinality(UserPayloads), address_data \in AddressPayloads :
           call_find_or_create_address_using_ebay_data(party, address_data)
    \/ \E address \in 1..(Cardinality(UserPayloads) * Cardinality(AddressPayloads)),
          address_data \in MatchPayloads :
           call_is_match_found(address, address_data)

SpecMatch == Init /\ [][NextMatch]_vars

\* the scheduled import on the installation with two eBay channels
InitCron ==
    /\ clock = DefaultLookback
    /\ channels = [id \in CronChannelIds |->
                      [source |-> ChannelSource(id),
                       ebay_token |-> <<"token", id>>,
                       default_uom |-> <<"uom", id>>,
                       default_account_expense |-> <<"expense", id>>,
                       default_account_revenue |-> <<"revenue", id>>,
                       last_ebay_order_import_time |-> default_last_ebay_order_import_time]]
    /\ has_get_trading_api \in BOOLEAN
    /\ db = EmptyDb
    /\ run = IdleRun
    /\ api_calls = <<>>
    /\ ret = NoReturn
    /\ last_window_end = [id \in CronChannelIds |-> -1]
    /\ cron = IdleCron

NextCron ==
    \/ Tick
    \/ import_ebay_orders_using_cron
    \/ cron_import_ebay_orders
    \/ write_last_ebay_order_import_time
    \/ execute_GetOrders
    \/ check_response
    \/ import_order
    \/ return_sales
    \/ cron_raise
    \/ cron_return

SpecCron == InitCron /\ [][NextCron]_vars

----------------------------------------------------------------------------
(* Properties *)

cursor(ch) == channels[ch].last_ebay_order_import_time

\* the run has left import_ebay_orders, by return or by exception, after
\* passing validate_ebay_channel
RunEnded == run.pc \in {"done", "raised"} /\ run.error # "invalid_channel"

\* C1 - Cursor monotonicity: after every run on an eBay channel, whether it
\* returned its sales, raised no_orders, failed in the fetch or failed on an
\* order, the channel's last_ebay_order_import_time is at least the value it
\* had on entry and equals the `now` the run captured.
C1_CursorMonotonicity ==
    RunEnded =>
        /\ cursor(run.self) = run.now
        /\ cursor(run.self) >= run.last_import_time

\* a run that failed on an order after the clock had moved past the old cursor
C1_Witness ==
    /\ run.pc = "raised"
    /\ run.failed # ""
    /\ run.now > run.last_import_time
    /\ cursor(run.self) = run.now

RECURSIVE FailuresAmong(_, _, _)
\* how many of `orders` fail when each is built in turn, failures skipped
FailuresAmong(d, ch, orders) ==
    IF orders = <<>> THEN 0
    ELSE LET r == Sale_create_using_ebay_data(d, ch, Head(orders))
         IN  (IF r.error # NoError THEN 1 ELSE 0) + FailuresAmong(r.db, ch, Tail(orders))

\* C2 - Per-order isolation: when exactly one order of a batch of N fails in
\* Sale construction, the run has created N-1 sales when it ends.
C2_PerOrderIsolation ==
    (/\ RunEnded
     /\ run.failed # ""
     /\ FailuresAmong(db, run.self, Tail(run.orders)) = 0)
    => Len(run.sales) = run.batch - 1

\* C3 - Cursor advance precedes processing and survives failures: while the
\* loop hands orders to the Sale Builder, and after any order was built or
\* failed, the cursor holds the run's window_end.
C3_CursorAdvancedBeforeProcessing ==
    (run.pc = "import" \/ run.sales # <<>> \/ run.failed # "")
    => /\ cursor(run.self) = run.now
       /\ run.writes = 1

\* a later order failed after an earlier one was built, the cursor past window_start
C3_Witness ==
    /\ run.pc = "raised"
    /\ run.failed # ""
    /\ Len(run.sales) >= 1
    /\ cursor(run.self) = run.now
    /\ run.now > run.last_import_time

\* C4 as stated - Channel cursor invariant: within a run the cursor changes
\* only after the GetOrders call has completed, at most once, and never while
\* the per-order loop is in progress.
C4_CursorChangesAfterFetch ==
    [][channels' # channels => (run.pc = "fetched" /\ run.writes = 0)]_vars

\* C4 amended - within a run the cursor changes exactly once, before the
\* GetOrders call is issued, and never while the fetch or the per-order loop
\* is in progress.
C4_CursorChangesBeforeFetch ==
    [][/\ channels' # channels =>
           /\ run.pc = "write"
           /\ run.writes = 0
           /\ api_calls = <<>>
           /\ \A ch \in DOMAIN channels : ch # run.self => channels'[ch] = channels[ch]
       /\ (run.pc = "write" /\ run'.pc # "write") =>
           /\ run'.writes = 1
           /\ cursor(run.self)' = run.now]_vars

\* the cursor has moved and the GetOrders call is still to be issued
C4_Witness ==
    /\ run.pc = "fetch"
    /\ api_calls = <<>>
    /\ cursor(run.self) = run.now
    /\ run.now > run.last_import_time

\* C5 - Window contiguity: a run fetches the window from the cursor read on
\* entry to `now`, and the window_start of every run after the first on a
\* channel is the window_end of the run before it, whatever way that one ended.
C5_WindowContiguity ==
    /\ (run.pc = "write" => run.last_import_time = cursor(run.self))
    /\ (run.pc \in {"fetched", "import"} =>
           api_calls[1] = GetOrders(run.self, run.last_import_time, run.now))
    /\ (run.pc # "idle" /\ run.error # "invalid_channel" /\ run.prev_window_end >= 0) =>
           /\ run.last_import_time = run.prev_window_end
           /\ run.last_import_time <= run.now

\* a later run on a channel has fetched a non-empty window
C5_Witness ==
    /\ run.pc = "fetched"
    /\ run.prev_window_end >= 0
    /\ run.last_import_time = run.prev_window_end
    /\ run.last_import_time < run.now

\* C6 - Configuration error does no partial work: import_ebay_orders on a
\* channel whose source is not 'ebay' raises invalid_channel at once; the
\* cursor and the tables are unchanged and no marketplace call is issued.
C6_InvalidChannelNoPartialWork ==
    [][\A ch \in DOMAIN channels :
          (channels[ch].source # "ebay" /\ import_ebay_orders(ch)) =>
              /\ run'.pc = "raised"
              /\ run'.error = "invalid_channel"
              /\ channels' = channels
              /\ db' = db
              /\ api_calls' = <<>>]_vars

\* the run on the other channel was refused while sales and a stale cursor existed
C6_Witness ==
    /\ run.pc = "raised"
    /\ run.error = "invalid_channel"
    /\ channels[run.self].source # "ebay"
    /\ db.sales # <<>>
    /\ cursor(run.self) < clock

AsList(response) ==
    [OrderArray |-> Dict([Order |-> List(<<response.OrderArray.fields.Order.fields>>)])]

\* C8 - Single-object response normalization: a response whose Order is the
\* single object o hands the Sale Builder exactly the orders that the response
\* with the list [o] hands it.
C8_SingleObjectNormalization ==
    (run.pc = "import" /\ isinstance(run.response.OrderArray.fields.Order, "dict")) =>
        /\ run.batch = Len(normalize_orders(AsList(run.response)))
        /\ run.orders = SubSeq(normalize_orders(AsList(run.response)),
                               Len(run.sales) + 1, run.batch)

\* the single order of a dict response has been built
C8_Witness ==
    /\ run.pc = "import"
    /\ isinstance(run.response.OrderArray.fields.Order, "dict")
    /\ Len(run.sales) = 1
    /\ run.orders = <<>>

\* C9 - Product identity uniqueness: no two products carry the same
\* ebay_item_id; create_using_ebay_data under an eBay channel with the ItemID
\* of an existing product fails with the uniqueness error and leaves the
\* product and template tables as they were.
C9_ProductIdentityUniqueness ==
    /\ \A i, j \in DOMAIN db.products :
           i # j => db.products[i].ebay_item_id # db.products[j].ebay_item_id
    /\ Len(db.templates) = Len(db.products)
    /\ \A ch \in DOMAIN channels, product_data \in ItemPayloads :
           (channels[ch].source = "ebay"
            /\ search_ebay_item_id(db, product_data.Item.ItemID) # {}) =>
               LET r == Product_create_using_ebay_data(db, ch, product_data, <<>>)
               IN  r.error = "unique_product_ebay_item_id" /\ r.db = db
    /\ (ret.op = "create_using_ebay_data" /\ ret.error = "unique_product_ebay_item_id") =>
           Cardinality(search_ebay_item_id(db, ret.ebay_id)) = 1

\* a second create with the ItemID of an existing product was refused
C9_Witness ==
    /\ ret.op = "create_using_ebay_data"
    /\ ret.error = "unique_product_ebay_item_id"
    /\ search_ebay_item_id(db, ret.ebay_id) # {}

\* C10 - Find path: when a product with the requested ebay_item_id exists,
\* find_or_create_using_ebay_id returns it, issues no GetItem call and leaves
\* every table as it was, under any current channel and on every call.
C10_FindPath ==
    /\ \A ch \in DOMAIN channels, ebay_id \in ItemIds :
           search_ebay_item_id(db, ebay_id) # {} =>
               LET r == Product_find_or_create_using_ebay_id(db, ch, ebay_id)
               IN  /\ r.error = NoError
                   /\ r.value \in search_ebay_item_id(db, ebay_id)
                   /\ r.calls = <<>>
                   /\ r.db = db
    /\ (ret.op = "find_or_create_using_ebay_id" /\ ret.error = NoError) =>
           /\ ret.value \in search_ebay_item_id(db, ret.ebay_id)
           /\ Cardinality(search_ebay_item_id(db, ret.ebay_id)) = 1

\* the call found the product and went to no marketplace
C10_Witness ==
    /\ ret.op = "find_or_create_using_ebay_id"
    /\ ret.error = NoError
    /\ api_calls = <<>>
    /\ ret.value \in search_ebay_item_id(db, ret.ebay_id)

\* C11 - Create path: when no product carries the requested id and the item
\* is listed on the marketplace, find_or_create_using_ebay_id under an eBay
\* channel fetches the item through that channel's trading API and returns a
\* new product, one template and one variant, whose ebay_item_id is the
\* requested id, so that the next call with the same id takes the find path.
C11_CreatePath ==
    [][\A ch \in DOMAIN channels, ebay_id \in ListedItems :
          (/\ channels[ch].source = "ebay"
           /\ search_ebay_item_id(db, ebay_id) = {}
           /\ call_find_or_create_using_ebay_id(ch, ebay_id)) =>
              /\ ret'.error = NoError
              /\ api_calls' = <<GetItem(ch, ebay_id)>>
              /\ Len(db'.products) = Len(db.products) + 1
              /\ Len(db'.templates) = Len(db.templates) + 1
              /\ ret'.value = Len(db'.products)
              /\ db'.products[ret'.value].ebay_item_id = ebay_id
              /\ db'.products[ret'.value].template = Len(db'.templates)
              /\ LET again == Product_find_or_create_using_ebay_id(db', ch, ebay_id)
                 IN  /\ again.value = ret'.value
                     /\ again.calls = <<>>
                     /\ again.db = db']_vars

\* C12 - End-to-end reuse: a run whose batch is two orders of the same buyer,
\* unknown before the run, with the same registration address, each with one
\* line for the same item, unknown before the run, ends with exactly one new
\* party, one new address, one new product and two new sales.
C12_EndToEndReuse ==
    (RunEnded /\ run.reuse) =>
        /\ Len(db.parties) = run.before.parties + 1
        /\ Len(db.addresses) = run.before.addresses + 1
        /\ Len(db.products) = run.before.products + 1
        /\ Len(db.sales) = run.before.sales + 2
        /\ Len(run.sales) = 2

\* the addresses of a party
AddressesOf(d, party) == {i \in DOMAIN d.addresses : d.addresses[i].party = party}

\* the party has an address equivalent to the payload
HasMatch(d, party, address_data) ==
    \E i \in AddressesOf(d, party) :
        is_match_found(d.addresses[i], get_address_from_ebay_data(party, address_data))

\* C13 as stated - Idempotent address dedup: for every party P and payload A,
\* two calls of find_or_create_address_using_ebay_data(A) on P return the same
\* address, the second call changes nothing, and P's addresses grow by exactly
\* one over the two calls.
C13_AddressDedupGrowsByOne ==
    \A party \in DOMAIN db.parties, address_data \in AddressPayloads :
        LET first == find_or_create_address_using_ebay_data(db, party, address_data)
            second == find_or_create_address_using_ebay_data(first.db, party, address_data)
        IN  /\ second.value = first.value
            /\ second.db = first.db
            /\ Cardinality(AddressesOf(second.db, party))
                   = Cardinality(AddressesOf(db, party)) + 1

\* C13 amended - two calls return the same address, the second call changes
\* nothing, no stored address is modified, and P's addresses grow by exactly
\* one over the two calls when P had no address equivalent to A before the
\* first call and not at all when it had one; no party ever holds two
\* equivalent addresses.
C13_AddressDedup ==
    /\ \A party \in DOMAIN db.parties, address_data \in AddressPayloads :
           LET first == find_or_create_address_using_ebay_data(db, party, address_data)
               second == find_or_create_address_using_ebay_data(first.db, party, address_data)
           IN  /\ second.value = first.value
               /\ second.db = first.db
               /\ first.value \in AddressesOf(first.db, party)
               /\ \A i \in DOMAIN db.addresses : first.db.addresses[i] = db.addresses[i]
               /\ Cardinality(AddressesOf(second.db, party))
                      = Cardinality(AddressesOf(db, party))
                          + (IF HasMatch(db, party, address_data) THEN 0 ELSE 1)
    /\ \A i, j \in DOMAIN db.addresses :
           (i # j /\ db.addresses[i].party = db.addresses[j].party) =>
               ~is_match_found(db.addresses[i], db.addresses[j])
    /\ ret.op = "find_or_create_address_using_ebay_data" =>
           /\ ret.value \in AddressesOf(db, ret.party)
           /\ is_match_found(db.addresses[ret.value],
                             get_address_from_ebay_data(ret.party, ret.address_data))

\* a repeated call with another casing of the state returned the stored
\* address and left it as it was
C13_Witness ==
    /\ ret.op = "find_or_create_address_using_ebay_data"
    /\ ~ret.created
    /\ ret.address_data = Addr1b
    /\ db.addresses[ret.value] = get_address_from_ebay_data(ret.party, Addr1a)

\* the payloads that name the place of Addr1a: same country, state, city and
\* street up to casing
SamePlaceAsAddr1a == {Addr1a, Addr1b, Addr1g, Addr1h}

\* the payloads name the same place
SamePlace(a, b) == a = b \/ (a \in SamePlaceAsAddr1a /\ b \in SamePlaceAsAddr1a)

\* C14 - Address equivalence predicate: is_match_found holds exactly when
\* country code, subdivision name, city and street are equal without regard
\* to casing; a payload that differs in casing only matches, one that differs
\* in country, subdivision, city or street does not, postal code and
\* addressee name take no part, and the call changes no stored state.
C14_AddressEquivalence ==
    [][(ret'.op = "is_match_found" /\ ret' # ret) =>
          /\ db' = db
          /\ channels' = channels
          /\ \A stored \in AddressPayloads :
                 db.addresses[ret'.address]
                     = get_address_from_ebay_data(db.addresses[ret'.address].party, stored)
                 => ret'.value = SamePlace(stored, ret'.address_data)
          /\ \A other \in MatchPayloads :
                 is_match_found(get_address_from_ebay_data(1, other),
                                get_address_from_ebay_data(1, ret'.address_data))
                 <=> SamePlace(other, ret'.address_data)]_vars

\* the address stored from Addr1a was found to match the payload that differs
\* from it in the casing of street, city and country
C14_Witness ==
    /\ ret.op = "is_match_found"
    /\ ret.value
    /\ ret.address_data = Addr1h
    /\ db.addresses[ret.address] = get_address_from_ebay_data(1, Addr1a)

\* the phone contact mechanisms of a party with a value
PhonesOf(d, party, phone) ==
    {i \in DOMAIN d.contact_mechanisms :
        d.contact_mechanisms[i] = [party |-> party, type |-> "phone", value |-> phone]}

\* C15 - Idempotent phone dedup: after one or more calls of
\* add_phone_using_ebay_data(v) on a party, the party has exactly one phone
\* contact mechanism with value v; the second and later calls create nothing.
C15_PhoneDedup ==
    /\ \A party \in DOMAIN db.parties, phone \in PhoneValues \cup {"555-0002"} :
           LET first == add_phone_using_ebay_data(db, party, phone)
               second == add_phone_using_ebay_data(first, party, phone)
           IN  /\ Cardinality(PhonesOf(db, party, phone)) <= 1
               /\ Cardinality(PhonesOf(first, party, phone)) = 1
               /\ second = first
               /\ \A i \in DOMAIN db.contact_mechanisms :
                      first.contact_mechanisms[i] = db.contact_mechanisms[i]
    /\ ret.op = "add_phone_using_ebay_data" =>
           Cardinality(PhonesOf(db, ret.party, ret.phone)) = 1

\* a repeated call found the phone of the party and created nothing
C15_Witness ==
    /\ ret.op = "add_phone_using_ebay_data"
    /\ ~ret.created
    /\ Cardinality(PhonesOf(db, ret.party, ret.phone)) = 1

\* the email contact mechanisms of a party
EmailsOf(d, party) ==
    {i \in DOMAIN d.contact_mechanisms :
        d.contact_mechanisms[i].party = party /\ d.contact_mechanisms[i].type = "email"}

\* C16 as stated - Duplicate party creation is a hard error: a second
\* Party.create_using_ebay_data with the same user data raises the uniqueness
\* error and the parties with that identity stay one; the first call creates
\* the party with one email contact mechanism.
C16_DuplicatePartyRaises ==
    [][\A user_data \in UserPayloads :
          call_Party_create_using_ebay_data(user_data) =>
              /\ Cardinality(search_party(db', user_data.UserID)) = 1
              /\ IF search_party(db, user_data.UserID) # {}
                   THEN ret'.error = "unique_party_name" /\ db' = db
                   ELSE /\ ret'.error = NoError
                        /\ ret'.value \in search_party(db', user_data.UserID)
                        /\ Cardinality(EmailsOf(db', ret'.value)) = 1]_vars

\* C16 amended - the second create raises the uniqueness error and the parties
\* with that identity stay one; the first call creates the party with one
\* email contact mechanism, holding the e-mail address of the user data, when
\* the user data has one, and with none otherwise.
C16_DuplicatePartyRaisesEmailIfPresent ==
    [][\A user_data \in UserPayloads :
          call_Party_create_using_ebay_data(user_data) =>
              /\ Cardinality(search_party(db', user_data.UserID)) = 1
              /\ IF search_party(db, user_data.UserID) # {}
                   THEN ret'.error = "unique_party_name" /\ db' = db
                   ELSE /\ ret'.error = NoError
                        /\ ret'.value \in search_party(db', user_data.UserID)
                        /\ Cardinality(EmailsOf(db', ret'.value))
                               = (IF user_data.Email # "" THEN 1 ELSE 0)
                        /\ \A i \in EmailsOf(db', ret'.value) :
                               db'.contact_mechanisms[i].value = user_data.Email]_vars

\* the second create for a user was refused; the party of the first create
\* is there with its email contact mechanism
C16_Witness ==
    /\ ret.op = "Party.create_using_ebay_data"
    /\ ret.error = "unique_party_name"
    /\ \E party \in search_party(db, ret.user) : Cardinality(EmailsOf(db, party)) = 1

\* a line of the order is for an item that is not a product yet and whose
\* create path cannot succeed
LineFails(d, order_data) ==
    \E k \in DOMAIN order_data.Items :
        /\ search_ebay_item_id(d, order_data.Items[k]) = {}
        /\ ~has_get_trading_api \/ order_data.Items[k] \notin ListedItems

C18_TokenStatusReadOnly ==
    [][\A ch \in DOMAIN channels :
          default_start(ch) =>
              /\ channels' = channels
              /\ db' = db
              /\ api_calls' = <<GetTokenStatus(ch)>>
              /\ ret'.error = NoError =>
                     \E response \in TokenStatusResponses :
                         /\ ret'.status = response.TokenStatus.Status
                         /\ ret'.expiry_date
                                = dateutil_parser_parse(response.TokenStatus.ExpirationTime)]_vars

\* the status of the token was returned while sales and a moved cursor existed
C18_Witness ==
    /\ ret.op = "check_token_status"
    /\ ret.error = NoError
    /\ ret.status = "Active"
    /\ ret.expiry_date.year = 2027
    /\ db.sales # <<>>
    /\ cursor(ret.channel) > 0
    /\ channels[ret.channel].ebay_token = <<"token", ret.channel>>

\* C19 - No-orders diagnostic timestamp: the timestamp the no_orders error
\* carries is the window_start of the run, the cursor value read before the
\* advance and sent as CreateTimeFrom, and not the window_end the cursor
\* holds when the error is raised.
C19_NoOrdersTimestamp ==
    run.error = "no_orders" =>
        /\ run.error_args = run.last_import_time
        /\ run.error_args = api_calls[1].CreateTimeFrom
        /\ cursor(run.self) = api_calls[1].CreateTimeTo
        /\ run.now > run.last_import_time => run.error_args # cursor(run.self)
        /\ run.prev_window_end >= 0 => run.error_args = run.prev_window_end

\* no_orders was raised for a window whose end lies after its start
C19_Witness ==
    /\ run.error = "no_orders"
    /\ run.now > run.last_import_time
    /\ run.error_args = run.last_import_time
    /\ cursor(run.self) = run.now

\* the prices, in cents, the payloads stand for: buy-now price and start price
ListPriceOf(ebay_id) ==
    CASE ebay_id = "X" -> 2500
      [] ebay_id = "Z" -> 2500
      [] ebay_id = "Y" -> 0

CostPriceOf(ebay_id) ==
    CASE ebay_id = "X" -> 1000
      [] ebay_id = "Z" -> 2500
      [] ebay_id = "Y" -> 1000

\* C20 - Price derivation on the create path: list_price is the BuyItNowPrice
\* when that value is non-empty and the StartPrice otherwise, cost_price is
\* always the StartPrice, and the default uom, sale uom and the expense and
\* revenue accounts are those of the current channel, which must be an eBay
\* channel.
C20_PriceDerivation ==
    /\ \A ch \in DOMAIN channels, product_data \in ItemPayloads \cup {AuctionPayload} :
           LET values == extract_product_values_from_ebay_data(ch, product_data)
           IN  /\ values.list_price = ListPriceOf(product_data.Item.ItemID)
               /\ values.cost_price = CostPriceOf(product_data.Item.ItemID)
               /\ values.default_uom = channels[ch].default_uom
               /\ values.sale_uom = channels[ch].default_uom
               /\ values.account_expense = channels[ch].default_account_expense
               /\ values.account_revenue = channels[ch].default_account_revenue
    /\ \A i \in DOMAIN db.products :
           LET template == db.templates[db.products[i].template]
           IN  /\ template.list_price = ListPriceOf(db.products[i].ebay_item_id)
               /\ template.cost_price = CostPriceOf(db.products[i].ebay_item_id)
               /\ \E ch \in DOMAIN channels :
                      /\ channels[ch].source = "ebay"
                      /\ template.default_uom = channels[ch].default_uom
                      /\ template.sale_uom = channels[ch].default_uom
                      /\ template.account_expense = channels[ch].default_account_expense
                      /\ template.account_revenue = channels[ch].default_account_revenue
    /\ ret.op = "create_using_ebay_data" =>
           IF channels[ret.channel].source # "ebay"
             THEN ret.error = "invalid_channel"
             ELSE ret.error = NoError =>
                      db.templates[db.products[ret.value].template].default_uom
                          = channels[ret.channel].default_uom

\* the product of item Z, which has no buy-now price, was created with its
\* start price as list price and as cost price
C20_Witness ==
    /\ ret.op = "create_using_ebay_data"
    /\ ret.error = NoError
    /\ ret.ebay_id = "Z"
    /\ ItemPayload("Z").Item.BuyItNowPrice = ""
    /\ db.templates[db.products[ret.value].template].list_price
           = Decimal(ItemPayload("Z").Item.StartPrice)
    /\ db.templates[db.products[ret.value].template].cost_price
           = Decimal(ItemPayload("Z").Item.StartPrice)

\* the cron method has ended: every run returned its sales, or the last run
\* it made found no orders in its window or failed on an order
CronEnded ==
    \/ cron.pc = "done"
    \/ cron.pc = "raised" /\ (run.error = "no_orders" \/ run.failed # "")

\* C21 - Channel independence in the scheduled import: when
\* import_ebay_orders_using_cron has ended, every channel with source 'ebay'
\* has had its own run attempted, with its window captured and its cursor
\* advanced to the end of that window, also when the run of another channel
\* found no orders or failed on an order; a channel with another source has
\* had no run and keeps the cursor it was created with.
C21_ChannelIndependence ==
    CronEnded =>
        /\ cron.channels = <<>>
        /\ \A ch \in DOMAIN channels :
               IF channels[ch].source = "ebay"
                 THEN /\ last_window_end[ch] >= 0
                      /\ cursor(ch) = last_window_end[ch]
                 ELSE /\ last_window_end[ch] = -1
                      /\ cursor(ch) < DefaultLookback

====
